---- MODULE Spec2Model ----
(***************************************************************************)
(* Session store of the WalletConnect service.                             *)
(*                                                                         *)
(* The model covers SessionManager (the store: primary records             *)
(* session:<id> and address index sets address:<addr> kept in Redis) and   *)
(* the WalletConnectService methods that drive it.  Every backend call is  *)
(* one atomic step: a handler is suspended only at its awaits.  The clock  *)
(* runs in seconds; Redis evicts a key when its expiry time is reached.    *)
(***************************************************************************)
EXTENDS Integers, FiniteSets, Sequences, TLC

----------------------------------------------------------------------------
(* Bounds of the model                                                     *)

MaxSessions == 2
MaxTicks == 2
MaxCalls == 3
MaxFailures == 1
MaxIssued == 3
MaxMs == 1
MaxRandom == 2
MaxHits == 5
MaxClock == 5
windowMs == 2
maxRequests == 2

----------------------------------------------------------------------------
(* Program constants and input domains                                     *)

sessionExpiry == 24 * 60 * 60 * 1000
SessionTTL == 24 * 60 * 60

\* this.sessionExpiry / 1000 mistaken for this.sessionExpiry
ExpirySecondsInMs == sessionExpiry

\* the seconds argument of setex and expire
ExpirySeconds == sessionExpiry \div 1000

ClockStep == SessionTTL \div 2
MaxTime == MaxTicks * ClockStep

Procs == {1}
Ids == 1 .. MaxSessions
AddrInputs == {"0xab", "0xAB", "0xcd"}
\* chain a session is created on; updateSession moves it to chain 1
ChainIds == {8453}
Metadatas == {"metamask"}
NoExpiry == -1
NoKey == -2

ToLowerCase(a) == IF a = "0xAB" THEN "0xab" ELSE a

getSessionKey(sessionId) == sessionId
getAddressKey(address) == ToLowerCase(address)

UpdateInputs ==
    {[chainId |-> 1]} \cup {[metadata |-> m] : m \in Metadatas}

----------------------------------------------------------------------------
(* Session record codec: JSON with ISO-8601 timestamps                     *)

DateOf(t) == t * 1000
\* a timestamp text that keeps whole seconds only
toISOStringSeconds(ms) == <<"iso", (ms \div 1000) * 1000>>

\* YYYY-MM-DDTHH:mm:ss.sssZ: the instant to the millisecond
toISOString(ms) == <<"iso", ms>>
NewDate(iso) == iso[2]

\* {...session, connectedAt: ..toISOString(), lastActivity: ..toISOString()}
\* as JSON text: one member per own property of the object
JSONStringify(session) ==
    [f \in DOMAIN session |->
        IF f \in {"connectedAt", "lastActivity"}
        THEN toISOString(session[f])
        ELSE session[f]]

\* a stored value that is not JSON text
CorruptData == [bytes |-> "corrupt"]

\* JSON.parse(sessionData) returns instead of throwing
JSONParses(sessionData) == "bytes" \notin DOMAIN sessionData

\* {...parsed, connectedAt: new Date(..), lastActivity: new Date(..)}
ParseSession(sessionData) ==
    [f \in DOMAIN sessionData |->
        IF f \in {"connectedAt", "lastActivity"}
        THEN NewDate(sessionData[f])
        ELSE sessionData[f]]

\* a merge in which the stored session wins over the updates
MergeSessionWins(session, updates, t) ==
    [f \in DOMAIN session \cup DOMAIN updates |->
        IF f = "lastActivity" THEN DateOf(t)
        ELSE IF f \in DOMAIN session THEN session[f]
        ELSE updates[f]]

\* {...session, ...updates, lastActivity: new Date()}
MergeUpdates(session, updates, t) ==
    [f \in DOMAIN session \cup DOMAIN updates |->
        IF f = "lastActivity" THEN DateOf(t)
        ELSE IF f \in DOMAIN updates THEN updates[f]
        ELSE session[f]]

\* a touch that stamps both timestamps
TouchBoth(session, t) ==
    [session EXCEPT !.lastActivity = DateOf(t), !.connectedAt = DateOf(t)]

\* a read that writes the record back without stamping it
TouchStale(session, t) == session

\* session.lastActivity = new Date()
Touch(session, t) == [session EXCEPT !.lastActivity = DateOf(t)]

NewSession(id, address, chainId, t) ==
    [id |-> id, address |-> ToLowerCase(address), chainId |-> chainId,
     connectedAt |-> DateOf(t), lastActivity |-> DateOf(t)]

----------------------------------------------------------------------------
(* Key-value backend (Redis) commands on the two key families              *)

Live(exp, t) == exp = NoExpiry \/ exp > t

\* a set that keeps the expiry of an existing key
SetexKeepTtl(prim, key, seconds, data, t) ==
    [k \in DOMAIN prim \cup {key} |->
        IF k = key
        THEN [data |-> data,
              exp |-> IF key \in DOMAIN prim THEN prim[key].exp ELSE t + seconds]
        ELSE prim[k]]

\* a plain set: the value is stored without expiry
SetNoExpiry(prim, key, seconds, data, t) ==
    [k \in DOMAIN prim \cup {key} |->
        IF k = key THEN [data |-> data, exp |-> NoExpiry] ELSE prim[k]]

\* a set that, when it overwrites a key, drops every other key
SetexAlone(prim, key, seconds, data, t) ==
    [k \in (IF key \in DOMAIN prim THEN {} ELSE DOMAIN prim) \cup {key} |->
        IF k = key THEN [data |-> data, exp |-> t + seconds] ELSE prim[k]]

Setex(prim, key, seconds, data, t) ==
    [k \in DOMAIN prim \cup {key} |->
        IF k = key THEN [data |-> data, exp |-> t + seconds] ELSE prim[k]]

Del(prim, key) == [k \in DOMAIN prim \ {key} |-> prim[k]]

Ttl(prim, key, t) ==
    IF key \notin DOMAIN prim THEN NoKey
    ELSE IF prim[key].exp = NoExpiry THEN NoExpiry
    ELSE prim[key].exp - t

\* an expire that is acknowledged and not applied
ExpireKeyNoop(prim, key, seconds, t) == prim

ExpireKey(prim, key, seconds, t) ==
    [k \in DOMAIN prim |->
        IF k = key THEN [prim[k] EXCEPT !.exp = t + seconds] ELSE prim[k]]

\* an add that overwrites the set instead of extending it
SaddReplace(idx, key, member) ==
    [k \in DOMAIN idx \cup {key} |->
        IF k = key
        THEN [members |-> {member},
              exp |-> IF key \in DOMAIN idx THEN idx[k].exp ELSE NoExpiry]
        ELSE idx[k]]

Sadd(idx, key, member) ==
    [k \in DOMAIN idx \cup {key} |->
        IF k = key
        THEN IF key \in DOMAIN idx
             THEN [idx[k] EXCEPT !.members = @ \cup {member}]
             ELSE [members |-> {member}, exp |-> NoExpiry]
        ELSE idx[k]]

\* a remove that deletes the whole set
SremSet(idx, key, member) == [k \in DOMAIN idx \ {key} |-> idx[k]]

\* a set that loses its last member is removed from the keyspace
Srem(idx, key, member) ==
    [k \in {j \in DOMAIN idx : j # key \/ idx[j].members # {member}} |->
        IF k = key THEN [idx[k] EXCEPT !.members = @ \ {member}] ELSE idx[k]]

Smembers(idx, key) == IF key \in DOMAIN idx THEN idx[key].members ELSE {}

Purge(store, t) == [k \in {j \in DOMAIN store : Live(store[j].exp, t)} |-> store[k]]

\* SessionManager.getSession on a reachable backend: null is <<>>
StoreGet(prim, sessionId) ==
    IF /\ getSessionKey(sessionId) \in DOMAIN prim
       /\ JSONParses(prim[getSessionKey(sessionId)].data)
    THEN <<ParseSession(prim[getSessionKey(sessionId)].data)>>
    ELSE <<>>

----------------------------------------------------------------------------
(* State                                                                   *)

VARIABLES
    now,        \* backend clock, seconds
    primary,    \* session:<id> keys: id -> [data, exp]
    index,      \* address:<addr> keys: addr -> [members, exp]
    nextId,     \* next id handed out by generateSessionId
    failures,   \* backend calls that have failed so far
    pc,         \* per process: the await it is suspended at
    loc,        \* per process: locals of the running handler
    calls,      \* handlers called so far
    hist,       \* history of the run, read by the properties only
    dateNow,    \* Date.now() of the service processes, milliseconds
    issued,     \* ids returned by createSession, in the order of the calls
    store,      \* RateLimitMiddleware: identifier -> [count, resetTime]
    res,        \* RateLimitMiddleware: the last request, its response and
                \* the store entry it left
    windows     \* history of the rate limiter, read by the properties only

vars == <<now, primary, index, nextId, failures, pc, loc, calls, hist,
          dateNow, issued, store, res, windows>>

\* a step of the session store leaves the rest of the service alone
StoreStep == UNCHANGED <<dateNow, issued, store, res, windows>>

Snapshot == [primary |-> primary, index |-> index, now |-> now,
             quiet |-> hist.quiet, fresh |-> hist.fresh,
             patched |-> hist.patched]

IdleLoc ==
    [op |-> "none", id |-> 0, addressKey |-> "", updates |-> <<>>,
     session |-> <<>>, keys |-> {}, key |-> 0, addrKeys |-> {},
     sessions |-> <<>>, cleanedCount |-> 0, value |-> 0,
     threw |-> FALSE, ret |-> "none", failed |-> FALSE,
     inRow |-> FALSE, body |-> <<>>, retries |-> 0,
     snap |-> [primary |-> <<>>, index |-> <<>>, now |-> 0,
               quiet |-> FALSE, fresh |-> <<>>, patched |-> <<>>]]

Init ==
    /\ now = 0
    /\ primary = <<>>
    /\ index = <<>>
    /\ nextId = 1
    /\ failures = 0
    /\ pc = [p \in Procs |-> "idle"]
    /\ loc = [p \in Procs |-> IdleLoc]
    /\ calls = 0
    /\ hist = [createdAddr |-> [i \in Ids |-> ""],
               createOk |-> {},
               lastWrite |-> [i \in Ids |-> -1],
               fresh |-> <<>>,
               patched |-> <<>>,
               quiet |-> FALSE]
    /\ dateNow = 0
    /\ issued = <<>>
    /\ store = <<>>
    /\ res = <<>>
    /\ windows = [hits |-> 0, win |-> <<>>]

\* a returned handler is observed in "done" before anything else happens
NoDone == \A q \in DOMAIN pc : pc[q] # "done"

Goto(p, label, l) ==
    /\ pc' = [pc EXCEPT ![p] = label]
    /\ loc' = [loc EXCEPT ![p] = l]

Call(p, op) ==
    /\ NoDone
    /\ pc[p] = "idle"
    /\ calls < MaxCalls
    /\ calls' = calls + 1
    /\ StoreStep

At(p, label) ==
    /\ NoDone
    /\ pc[p] = label
    /\ UNCHANGED calls
    /\ StoreStep

\* the backend call of this step fails after its retries
BackendFails ==
    /\ failures < MaxFailures
    /\ failures' = failures + 1

Started(p, op) == [IdleLoc EXCEPT !.op = op, !.snap = Snapshot]

\* history: a handler other than the sweep changed a key, or a key expired
Mutated(h) == [h EXCEPT !.quiet = FALSE]

\* history: a successful setex on session:<id> at time t
WroteHist(h, id, t) == [Mutated(h) EXCEPT !.lastWrite[id] = t]

\* history: a successful del of session:<id>
DeletedHist(h, id) == [Mutated(h) EXCEPT !.lastWrite[id] = -1]

\* history: a handler is called
CalledHist(h) == [h EXCEPT !.fresh = <<>>, !.patched = <<>>]

\* history: updateSession(id, updates) has returned true for the session
\* that read as before
PatchedHist(h, before, updates) ==
    [h EXCEPT !.patched = <<[before |-> before, updates |-> updates]>>]

----------------------------------------------------------------------------
(* WalletConnectService.createSession -> SessionManager.createSession      *)

CreateSetex(p, address, chainId) ==
    /\ Call(p, "create")
    /\ nextId <= MaxSessions
    /\ LET session == NewSession(nextId, address, chainId, now)
           key == getSessionKey(session.id)
           l == [Started(p, "create") EXCEPT !.id = session.id,
                                             !.session = <<session>>]
       IN  /\ nextId' = nextId + 1
           /\ \/ /\ primary' = Setex(primary, key, ExpirySeconds,
                                     JSONStringify(session), now)
                 /\ hist' = [WroteHist(CalledHist(hist), session.id, now)
                                EXCEPT !.createdAddr[session.id] = session.address]
                 /\ Goto(p, "c_sadd", l)
                 /\ UNCHANGED failures
              \/ /\ BackendFails
                 /\ Goto(p, "done", [l EXCEPT !.threw = TRUE, !.failed = TRUE,
                                              !.ret = "error"])
                 /\ hist' = CalledHist(hist)
                 /\ UNCHANGED primary
    /\ UNCHANGED <<now, index>>

CreateSadd(p) ==
    /\ At(p, "c_sadd")
    /\ LET session == loc[p].session[1]
           addressKey == getAddressKey(session.address)
       IN  \/ /\ index' = Sadd(index, addressKey, session.id)
              /\ hist' = Mutated(hist)
              /\ Goto(p, "c_expire", loc[p])
              /\ UNCHANGED failures
           \/ /\ BackendFails
              /\ Goto(p, "done", [loc[p] EXCEPT !.threw = TRUE, !.failed = TRUE,
                                                !.ret = "error"])
              /\ UNCHANGED <<index, hist>>
    /\ UNCHANGED <<now, primary, nextId>>

CreateExpire(p) ==
    /\ At(p, "c_expire")
    /\ LET session == loc[p].session[1]
           addressKey == getAddressKey(session.address)
       IN  \/ /\ index' = ExpireKey(index, addressKey, ExpirySeconds, now)
              /\ hist' = [Mutated(hist) EXCEPT !.createOk = @ \cup {session.id},
                                               !.fresh = <<session>>]
              /\ Goto(p, "done", [loc[p] EXCEPT !.ret = "session"])
              /\ UNCHANGED failures
           \/ /\ BackendFails
              /\ Goto(p, "done", [loc[p] EXCEPT !.threw = TRUE, !.failed = TRUE,
                                                !.ret = "error"])
              /\ UNCHANGED <<index, hist>>
    /\ UNCHANGED <<now, primary, nextId>>

----------------------------------------------------------------------------
(* WalletConnectService.getSession: read, touch lastActivity, write back   *)

GetGet(p, sessionId) ==
    /\ Call(p, "get")
    /\ LET l == [Started(p, "get") EXCEPT !.id = sessionId]
           session == StoreGet(primary, sessionId)
       IN  \/ /\ IF session = <<>>
                 THEN Goto(p, "done", [l EXCEPT !.ret = "null"])
                 ELSE Goto(p, "g_setex",
                           [l EXCEPT !.session = <<Touch(session[1], now)>>])
              /\ UNCHANGED failures
           \/ /\ BackendFails
              /\ Goto(p, "done", [l EXCEPT !.failed = TRUE, !.ret = "null"])
    /\ hist' = CalledHist(hist)
    /\ UNCHANGED <<now, primary, index, nextId>>

GetSetex(p) ==
    /\ At(p, "g_setex")
    /\ LET session == loc[p].session[1]
           key == getSessionKey(session.id)
       IN  \/ /\ primary' = Setex(primary, key, ExpirySeconds,
                                  JSONStringify(session), now)
              /\ hist' = WroteHist(hist, session.id, now)
              /\ Goto(p, "done", [loc[p] EXCEPT !.ret = "session"])
              /\ UNCHANGED failures
           \/ /\ BackendFails
              /\ Goto(p, "done", [loc[p] EXCEPT !.threw = TRUE, !.failed = TRUE,
                                                !.ret = "null"])
              /\ UNCHANGED <<primary, hist>>
    /\ UNCHANGED <<now, index, nextId>>

----------------------------------------------------------------------------
(* WalletConnectService.updateSession: read, merge, write back             *)

\* an update that raises for a missing session
UpdateOnReadThrows(session) == IF session = <<>> THEN "throw" ELSE "u_setex"

\* if (!session) return false
UpdateOnRead(session) == IF session = <<>> THEN "return" ELSE "u_setex"

UpdGet(p, sessionId, updates) ==
    /\ Call(p, "update")
    /\ LET l == [Started(p, "update") EXCEPT !.id = sessionId,
                                             !.updates = updates]
           session == StoreGet(primary, sessionId)
           branch == UpdateOnRead(session)
       IN  \/ /\ IF branch = "return"
                 THEN Goto(p, "done", [l EXCEPT !.ret = "false"])
                 ELSE IF branch = "u_setex"
                 THEN Goto(p, "u_setex",
                           [l EXCEPT !.session =
                                <<MergeUpdates(session[1], updates, now)>>])
                 ELSE Goto(p, "done", [l EXCEPT !.threw = TRUE,
                                                !.ret = "error"])
              /\ UNCHANGED failures
           \/ /\ BackendFails
              /\ Goto(p, "done", [l EXCEPT !.failed = TRUE, !.ret = "false"])
    /\ hist' = CalledHist(hist)
    /\ UNCHANGED <<now, primary, index, nextId>>

UpdSetex(p) ==
    /\ At(p, "u_setex")
    /\ LET session == loc[p].session[1]
           key == getSessionKey(session.id)
       IN  \/ /\ primary' = Setex(primary, key, ExpirySeconds,
                                  JSONStringify(session), now)
              /\ hist' = PatchedHist(WroteHist(hist, session.id, now),
                                      StoreGet(loc[p].snap.primary, loc[p].id)[1],
                                      loc[p].updates)
              /\ Goto(p, "done", [loc[p] EXCEPT !.ret = "true"])
              /\ UNCHANGED failures
           \/ /\ BackendFails
              /\ Goto(p, "done", [loc[p] EXCEPT !.threw = TRUE, !.failed = TRUE,
                                                !.ret = "false"])
              /\ UNCHANGED <<primary, hist>>
    /\ UNCHANGED <<now, index, nextId>>

----------------------------------------------------------------------------
(* WalletConnectService.disconnectSession -> SessionManager.deleteSession  *)

\* a delete that treats a missing session as an error
DeleteOnReadThrows(session) == IF session = <<>> THEN "throw" ELSE "d_del"

\* if (!session) return: what deleteSession does with the result of its read
DeleteOnRead(session) == IF session = <<>> THEN "return" ELSE "d_del"

DelGet(p, sessionId) ==
    /\ Call(p, "disconnect")
    /\ LET l == [Started(p, "disconnect") EXCEPT !.id = sessionId]
           Continue(session, failed) ==
               LET branch == DeleteOnRead(session)
                   m == [l EXCEPT !.session = session, !.failed = failed]
               IN  IF branch = "return"
                   THEN Goto(p, "done", [m EXCEPT !.ret = "true"])
                   ELSE IF branch = "d_del"
                   THEN Goto(p, "d_del", m)
                   ELSE Goto(p, "done", [m EXCEPT !.threw = TRUE,
                                                  !.ret = "false"])
       IN  \/ /\ Continue(StoreGet(primary, sessionId), FALSE)
              /\ UNCHANGED failures
           \* getSession catches the failure and answers null
           \/ /\ BackendFails
              /\ Continue(<<>>, TRUE)
    /\ hist' = CalledHist(hist)
    /\ UNCHANGED <<now, primary, index, nextId>>

DelDel(p) ==
    /\ At(p, "d_del")
    /\ LET key == getSessionKey(loc[p].id)
       IN  \/ /\ primary' = Del(primary, key)
              /\ hist' = DeletedHist(hist, loc[p].id)
              /\ Goto(p, "d_srem", loc[p])
              /\ UNCHANGED failures
           \/ /\ BackendFails
              /\ Goto(p, "done", [loc[p] EXCEPT !.threw = TRUE, !.failed = TRUE,
                                                !.ret = "false"])
              /\ UNCHANGED <<primary, hist>>
    /\ UNCHANGED <<now, index, nextId>>

DelSrem(p) ==
    /\ At(p, "d_srem")
    /\ LET session == loc[p].session[1]
           addressKey == getAddressKey(session.address)
       IN  \/ /\ index' = Srem(index, addressKey, loc[p].id)
              /\ hist' = Mutated(hist)
              /\ Goto(p, "done", [loc[p] EXCEPT !.ret = "true"])
              /\ UNCHANGED failures
           \/ /\ BackendFails
              /\ Goto(p, "done", [loc[p] EXCEPT !.threw = TRUE, !.failed = TRUE,
                                                !.ret = "false"])
              /\ UNCHANGED <<index, hist>>
    /\ UNCHANGED <<now, primary, nextId>>

----------------------------------------------------------------------------
(* SessionManager.getSessionsByAddress                                     *)

ListLoop(p, l) ==
    IF l.keys = {}
    THEN Goto(p, "done", [l EXCEPT !.ret = "list"])
    ELSE Goto(p, "l_get", l)

ListSmembers(p, address) ==
    /\ Call(p, "list")
    /\ LET addressKey == getAddressKey(address)
           l == [Started(p, "list") EXCEPT !.addressKey = addressKey]
       IN  \/ /\ ListLoop(p, [l EXCEPT !.keys = Smembers(index, addressKey)])
              /\ UNCHANGED failures
           \/ /\ BackendFails
              /\ Goto(p, "done", [l EXCEPT !.failed = TRUE, !.ret = "list"])
    /\ hist' = CalledHist(hist)
    /\ UNCHANGED <<now, primary, index, nextId>>

\* a listing that pushes the null it got for a member without record
PushAlways(sessions, session) ==
    Append(sessions, IF session = <<>> THEN [id |-> 0] ELSE session[1])

\* if (session) { sessions.push(session) }
PushIfFound(sessions, session) == sessions \o session

\* a listing that takes the members it finds without record out of the set
ListPrune(idx, addressKey, sessionId, session) ==
    IF session = <<>> THEN Srem(idx, addressKey, sessionId) ELSE idx

\* if (session) sessions.push(session): a member without record is passed
\* over, the set stays as it is
ListKeep(idx, addressKey, sessionId, session) == idx

\* one turn of the loop; smembers gives the ids in no particular order
ListGet(p) ==
    /\ At(p, "l_get")
    /\ \E sessionId \in loc[p].keys :
        LET rest == [loc[p] EXCEPT !.keys = @ \ {sessionId}]
            session == StoreGet(primary, sessionId)
        IN  \/ /\ ListLoop(p, [rest EXCEPT !.sessions = PushIfFound(@, session)])
               /\ UNCHANGED failures
               /\ index' = ListKeep(index, loc[p].addressKey, sessionId, session)
            \/ /\ BackendFails
               /\ ListLoop(p, [rest EXCEPT !.failed = TRUE])
               /\ UNCHANGED index
    /\ UNCHANGED <<now, primary, nextId, hist>>

----------------------------------------------------------------------------
(* SessionManager.getAllSessions (WalletConnectService.getActiveSessions)  *)

AllLoop(p, l) ==
    IF l.keys = {}
    THEN Goto(p, "done", [l EXCEPT !.ret = "list"])
    ELSE Goto(p, "a_get", l)

\* catch: log and return []
AllCatch(p, l) ==
    /\ BackendFails
    /\ Goto(p, "done", [l EXCEPT !.failed = TRUE, !.sessions = <<>>,
                                 !.ret = "list"])

AllKeys(p) ==
    /\ Call(p, "all")
    /\ LET l == Started(p, "all")
       IN  \/ /\ AllLoop(p, [l EXCEPT !.keys = DOMAIN primary])
              /\ UNCHANGED failures
           \/ AllCatch(p, l)
    /\ hist' = CalledHist(hist)
    /\ UNCHANGED <<now, primary, index, nextId>>

\* one turn of the loop: redis.get(key); a key that is gone is passed over
AllGet(p) ==
    /\ At(p, "a_get")
    /\ \E key \in loc[p].keys :
        LET rest == [loc[p] EXCEPT !.keys = @ \ {key}, !.key = key]
            session == StoreGet(primary, key)
            throws == key \in DOMAIN primary /\ ~JSONParses(primary[key].data)
        IN  \/ /\ ~throws
               /\ AllLoop(p, [rest EXCEPT !.sessions = @ \o session])
               /\ UNCHANGED failures
            \/ /\ throws
               /\ Goto(p, "done", [rest EXCEPT !.sessions = <<>>, !.ret = "list"])
               /\ UNCHANGED failures
            \/ AllCatch(p, rest)
    /\ UNCHANGED <<now, primary, index, nextId, hist>>

----------------------------------------------------------------------------
(* SessionManager.cleanupExpiredSessions (the reconciliation sweep)        *)

\* history at the return of a sweep
SweptHist(h) == [h EXCEPT !.quiet = TRUE]

\* the sweep ran right after another sweep, nothing changed or expired since
InRow(l) == l.snap.quiet /\ hist.quiet

\* the end of one turn of the loop over keys
SweepLoop(p, l, h) ==
    IF l.keys = {}
    THEN /\ Goto(p, "done", [l EXCEPT !.value = l.cleanedCount, !.ret = "count",
                                      !.inRow = InRow(l)])
         /\ hist' = SweptHist(h)
    ELSE /\ Goto(p, "s_ttl", l)
         /\ hist' = h

\* catch: log and return 0
SweepCatch(p, l, h) ==
    /\ BackendFails
    /\ Goto(p, "done", [l EXCEPT !.failed = TRUE, !.value = 0, !.ret = "count",
                                 !.inRow = InRow(l)])
    /\ hist' = SweptHist(h)

SweepKeys(p) ==
    /\ Call(p, "cleanup")
    /\ LET l == Started(p, "cleanup")
       IN  \/ /\ SweepLoop(p, [l EXCEPT !.keys = DOMAIN primary], CalledHist(hist))
              /\ UNCHANGED failures
           \/ SweepCatch(p, l, CalledHist(hist))
    /\ UNCHANGED <<now, primary, index, nextId>>

\* a sweep that takes every key with an expiry for a missing key
TtlBranchAnyExpiry(ttl) == IF ttl = -1 THEN "s_expire" ELSE "s_addrkeys"

\* a sweep that renews the expiry of every key that exists
TtlBranchAlwaysExpire(ttl) == IF ttl = -2 THEN "s_addrkeys" ELSE "s_expire"

\* if (ttl === -1) ... else if (ttl === -2) ...
TtlBranch(ttl) ==
    IF ttl = -1 THEN "s_expire" ELSE IF ttl = -2 THEN "s_addrkeys" ELSE "next"

SweepTtl(p) ==
    /\ At(p, "s_ttl")
    /\ \E key \in loc[p].keys :
        LET l == [loc[p] EXCEPT !.keys = @ \ {key}, !.key = key]
            ttl == Ttl(primary, key, now)
        IN  \/ /\ IF TtlBranch(ttl) = "next"
                  THEN SweepLoop(p, l, hist)
                  ELSE Goto(p, TtlBranch(ttl), l) /\ UNCHANGED hist
               /\ UNCHANGED failures
            \/ SweepCatch(p, l, hist)
    /\ UNCHANGED <<now, primary, index, nextId>>

\* ttl === -1: the key exists without expiry
SweepExpire(p) ==
    /\ At(p, "s_expire")
    /\ \/ /\ primary' = ExpireKey(primary, loc[p].key, ExpirySeconds, now)
          /\ SweepLoop(p, loc[p], hist)
          /\ UNCHANGED failures
       \/ /\ SweepCatch(p, loc[p], hist)
          /\ UNCHANGED primary
    /\ UNCHANGED <<now, index, nextId>>

\* one turn of the loop over address keys
SweepAddrLoop(p, l) ==
    IF l.addrKeys = {}
    THEN SweepLoop(p, [l EXCEPT !.cleanedCount = @ + 1], hist)
    ELSE Goto(p, "s_srem", l) /\ UNCHANGED hist

\* ttl === -2: the key is gone, look for it in every address set
SweepAddrKeys(p) ==
    /\ At(p, "s_addrkeys")
    /\ \/ /\ SweepAddrLoop(p, [loc[p] EXCEPT !.addrKeys = DOMAIN index])
          /\ UNCHANGED failures
       \/ SweepCatch(p, loc[p], hist)
    /\ UNCHANGED <<now, primary, index, nextId>>

SweepSrem(p) ==
    /\ At(p, "s_srem")
    /\ \E addrKey \in loc[p].addrKeys :
        LET l == [loc[p] EXCEPT !.addrKeys = @ \ {addrKey}]
        IN  \/ /\ index' = Srem(index, addrKey, loc[p].key)
               /\ SweepAddrLoop(p, l)
               /\ UNCHANGED failures
            \/ /\ SweepCatch(p, l, hist)
               /\ UNCHANGED index
    /\ UNCHANGED <<now, primary, nextId>>

----------------------------------------------------------------------------
(* Environment: a handler returns to its caller; the clock advances        *)

Return(p) ==
    /\ pc[p] = "done"
    /\ Goto(p, "idle", IdleLoc)
    /\ UNCHANGED <<now, primary, index, nextId, failures, calls, hist>>
    /\ StoreStep

\* the awaits inside the loop of the sweep
SweepLabels == {"s_ttl", "s_expire", "s_addrkeys", "s_srem"}

\* Redis evicts every key whose expiry time has been reached.  A handler
\* takes milliseconds against a clock step of hours: the clock advances
\* between handlers, and inside the sweep, which walks the whole keyspace.
Tick ==
    /\ \A q \in Procs : pc[q] \in {"idle"} \cup SweepLabels
    /\ now + ClockStep <= MaxTime
    /\ now' = now + ClockStep
    /\ primary' = Purge(primary, now')
    /\ index' = Purge(index, now')
    /\ hist' = IF primary' # primary \/ index' # index THEN Mutated(hist) ELSE hist
    /\ UNCHANGED <<nextId, failures, pc, loc, calls>>
    /\ StoreStep

Next ==
    \/ \E p \in Procs, address \in AddrInputs, chainId \in ChainIds :
            CreateSetex(p, address, chainId)
    \/ \E p \in Procs : CreateSadd(p)
    \/ \E p \in Procs : CreateExpire(p)
    \/ \E p \in Procs, sessionId \in Ids : GetGet(p, sessionId)
    \/ \E p \in Procs : GetSetex(p)
    \/ \E p \in Procs, sessionId \in Ids, updates \in UpdateInputs :
            UpdGet(p, sessionId, updates)
    \/ \E p \in Procs : UpdSetex(p)
    \/ \E p \in Procs, sessionId \in Ids : DelGet(p, sessionId)
    \/ \E p \in Procs : DelDel(p)
    \/ \E p \in Procs : DelSrem(p)
    \/ \E p \in Procs, address \in AddrInputs : ListSmembers(p, address)
    \/ \E p \in Procs : ListGet(p)
    \/ \E p \in Procs : SweepKeys(p)
    \/ \E p \in Procs : SweepTtl(p)
    \/ \E p \in Procs : SweepAddrKeys(p)
    \/ \E p \in Procs : SweepSrem(p)
    \/ \E p \in Procs : Return(p)
    \/ Tick

Spec == Init /\ [][Next]_vars

----------------------------------------------------------------------------
(* PUT /api/session/:sessionId with an arbitrary body.  ValidationMiddleware *)
(* validates with stripUnknown but drops the stripped value: req.body       *)
(* reaches updateSession with every property the client sent.               *)

RawUpdateInputs ==
    {[id |-> i] : i \in Ids} \cup {[address |-> a] : a \in AddrInputs}

NextRaw ==
    \/ Next
    \/ \E p \in Procs, sessionId \in Ids, updates \in RawUpdateInputs :
            UpdGet(p, sessionId, updates)

RawSpec == Init /\ [][NextRaw]_vars

----------------------------------------------------------------------------
(* The sweep over a keyspace that holds records without expiry. No write   *)
(* of SessionManager leaves such a record; the branch ttl === -1 of the    *)
(* sweep is for a key that lost its expiry by another client of the same   *)
(* Redis (PERSIST, or SET without EX), which Persist stands for; one key   *)
(* at a time is in that condition.                                         *)

\* the keys that exist without expiry
Immortal(prim) == {key \in DOMAIN prim : prim[key].exp = NoExpiry}

Persist(sessionId) ==
    /\ NoDone
    /\ \A q \in DOMAIN pc : pc[q] = "idle"
    /\ Immortal(primary) = {}
    /\ sessionId \in DOMAIN primary
    /\ primary[sessionId].exp # NoExpiry
    /\ primary' = [primary EXCEPT ![sessionId].exp = NoExpiry]
    /\ hist' = Mutated(hist)
    /\ UNCHANGED <<now, index, nextId, failures, pc, loc, calls>>
    /\ StoreStep

SweepNext ==
    \/ \E p \in Procs, address \in AddrInputs, chainId \in ChainIds :
            CreateSetex(p, address, chainId)
    \/ \E p \in Procs : CreateSadd(p)
    \/ \E p \in Procs : CreateExpire(p)
    \/ \E sessionId \in Ids : Persist(sessionId)
    \/ \E p \in Procs : SweepKeys(p)
    \/ \E p \in Procs : SweepTtl(p)
    \/ \E p \in Procs : SweepExpire(p)
    \/ \E p \in Procs : SweepAddrKeys(p)
    \/ \E p \in Procs : SweepSrem(p)
    \/ \E p \in Procs : Return(p)
    \/ Tick

SweepSpec == Init /\ [][SweepNext]_vars

----------------------------------------------------------------------------
(* Two handlers in flight at once: every await of one may be followed by a  *)
(* step of the other, and the clock may advance between any two steps.      *)

ConcProcs == {1, 2}

ConcInit ==
    /\ now = 0
    /\ primary = <<>>
    /\ index = <<>>
    /\ nextId = 1
    /\ failures = 0
    /\ pc = [p \in ConcProcs |-> "idle"]
    /\ loc = [p \in ConcProcs |-> IdleLoc]
    /\ calls = 0
    /\ hist = [createdAddr |-> [i \in Ids |-> ""],
               createOk |-> {},
               lastWrite |-> [i \in Ids |-> -1],
               fresh |-> <<>>,
               patched |-> <<>>,
               quiet |-> FALSE]
    /\ dateNow = 0
    /\ issued = <<>>
    /\ store = <<>>
    /\ res = <<>>
    /\ windows = [hits |-> 0, win |-> <<>>]

ConcTick ==
    /\ NoDone
    /\ now + ClockStep <= MaxTime
    /\ now' = now + ClockStep
    /\ primary' = Purge(primary, now')
    /\ index' = Purge(index, now')
    /\ hist' = IF primary' # primary \/ index' # index THEN Mutated(hist) ELSE hist
    /\ UNCHANGED <<nextId, failures, pc, loc, calls>>
    /\ StoreStep

ConcNext ==
    \/ \E p \in ConcProcs, address \in AddrInputs, chainId \in ChainIds :
            CreateSetex(p, address, chainId)
    \/ \E p \in ConcProcs : CreateSadd(p)
    \/ \E p \in ConcProcs : CreateExpire(p)
    \/ \E p \in ConcProcs, sessionId \in Ids : GetGet(p, sessionId)
    \/ \E p \in ConcProcs : GetSetex(p)
    \/ \E p \in ConcProcs, sessionId \in Ids, updates \in UpdateInputs :
            UpdGet(p, sessionId, updates)
    \/ \E p \in ConcProcs : UpdSetex(p)
    \/ \E p \in ConcProcs, sessionId \in Ids : DelGet(p, sessionId)
    \/ \E p \in ConcProcs : DelDel(p)
    \/ \E p \in ConcProcs : DelSrem(p)
    \/ \E p \in ConcProcs : SweepKeys(p)
    \/ \E p \in ConcProcs : SweepTtl(p)
    \/ \E p \in ConcProcs : SweepAddrKeys(p)
    \/ \E p \in ConcProcs : SweepSrem(p)
    \/ \E p \in ConcProcs : Return(p)
    \/ ConcTick

ConcSpec == ConcInit /\ [][ConcNext]_vars

----------------------------------------------------------------------------
(* Creates in flight at once: the three commands of one createSession may  *)
(* be separated by commands of the other. Keys expire between requests.    *)

QuietTick ==
    /\ \A q \in DOMAIN pc : pc[q] = "idle"
    /\ ConcTick

ConcCreateNext ==
    \/ \E p \in ConcProcs, address \in AddrInputs, chainId \in ChainIds :
            CreateSetex(p, address, chainId)
    \/ \E p \in ConcProcs : CreateSadd(p)
    \/ \E p \in ConcProcs : CreateExpire(p)
    \/ \E p \in ConcProcs : Return(p)
    \/ QuietTick

ConcCreateSpec == ConcInit /\ [][ConcCreateNext]_vars

----------------------------------------------------------------------------
(* Deletes beside creates: the commands of a deleteSession may be          *)
(* separated by those of a createSession, for the same address or not.     *)

\* the request that deletes and the request that creates
Deleters == {1}
Creators == {2}

ConcDeleteNext ==
    \/ \E p \in Creators, address \in AddrInputs, chainId \in ChainIds :
            CreateSetex(p, address, chainId)
    \/ \E p \in Creators : CreateSadd(p)
    \/ \E p \in Creators : CreateExpire(p)
    \/ \E p \in Deleters, sessionId \in Ids : DelGet(p, sessionId)
    \/ \E p \in Deleters : DelDel(p)
    \/ \E p \in Deleters : DelSrem(p)
    \/ \E p \in ConcProcs : Return(p)
    \/ QuietTick

ConcDeleteSpec == ConcInit /\ [][ConcDeleteNext]_vars

----------------------------------------------------------------------------
(* The writing operations of the store side by side: one request updates   *)
(* or deletes while the other creates or sweeps.                           *)

ConcStoreNext ==
    \/ \E p \in Creators, address \in AddrInputs, chainId \in ChainIds :
            CreateSetex(p, address, chainId)
    \/ \E p \in Creators : CreateSadd(p)
    \/ \E p \in Creators : CreateExpire(p)
    \/ \E p \in Deleters, sessionId \in Ids, updates \in {[chainId |-> 1]} :
            UpdGet(p, sessionId, updates)
    \/ \E p \in Deleters : UpdSetex(p)
    \/ \E p \in Deleters, sessionId \in Ids : DelGet(p, sessionId)
    \/ \E p \in Deleters : DelDel(p)
    \/ \E p \in Deleters : DelSrem(p)
    \/ \E p \in Creators : SweepKeys(p)
    \/ \E p \in Creators : SweepTtl(p)
    \/ \E p \in Creators : SweepAddrKeys(p)
    \/ \E p \in Creators : SweepSrem(p)
    \/ \E p \in ConcProcs : Return(p)
    \/ QuietTick

ConcStoreSpec == ConcInit /\ [][ConcStoreNext]_vars

----------------------------------------------------------------------------
(* The reads of the store, after creates and beside the expiry of keys     *)

ReadNext ==
    \/ \E p \in Procs, address \in AddrInputs, chainId \in ChainIds :
            CreateSetex(p, address, chainId)
    \/ \E p \in Procs : CreateSadd(p)
    \/ \E p \in Procs : CreateExpire(p)
    \/ \E p \in Procs, sessionId \in Ids : GetGet(p, sessionId)
    \/ \E p \in Procs : GetSetex(p)
    \/ \E p \in Procs, address \in AddrInputs : ListSmembers(p, address)
    \/ \E p \in Procs : ListGet(p)
    \/ \E p \in Procs : AllKeys(p)
    \/ \E p \in Procs : AllGet(p)
    \/ \E p \in Procs : Return(p)
    \/ ConcTick

ReadSpec == Init /\ [][ReadNext]_vars

----------------------------------------------------------------------------
(* The reads over a keyspace in which the value of a session key is not    *)
(* JSON text. SessionManager writes JSON.stringify output only; Corrupt    *)
(* stands for a write to the key by another client of the same Redis.      *)

Corrupt(sessionId) ==
    /\ NoDone
    /\ \A q \in DOMAIN pc : pc[q] = "idle"
    /\ sessionId \in DOMAIN primary
    /\ JSONParses(primary[sessionId].data)
    /\ primary' = [primary EXCEPT ![sessionId].data = CorruptData]
    /\ hist' = Mutated(hist)
    /\ UNCHANGED <<now, index, nextId, failures, pc, loc, calls>>
    /\ StoreStep

CorruptNext ==
    \/ \E p \in Procs, address \in AddrInputs, chainId \in ChainIds :
            CreateSetex(p, address, chainId)
    \/ \E p \in Procs : CreateSadd(p)
    \/ \E p \in Procs : CreateExpire(p)
    \/ \E sessionId \in Ids : Corrupt(sessionId)
    \/ \E p \in Procs, sessionId \in Ids : GetGet(p, sessionId)
    \/ \E p \in Procs : GetSetex(p)
    \/ \E p \in Procs, address \in AddrInputs : ListSmembers(p, address)
    \/ \E p \in Procs : ListGet(p)
    \/ \E p \in Procs : AllKeys(p)
    \/ \E p \in Procs : AllGet(p)
    \/ \E p \in Procs : Return(p)
    \/ Tick

CorruptSpec == Init /\ [][CorruptNext]_vars

----------------------------------------------------------------------------
(* The codec by itself: the text createSession / updateSession store for a *)
(* session, and the session getSession makes of that text.                 *)

\* instants in milliseconds, on and off a whole second
CodecInstants == {0, 1, 1500}

CodecSessions ==
    LET plain == {[id |-> i, address |-> ToLowerCase(a), chainId |-> c,
                   connectedAt |-> t1, lastActivity |-> t2] :
                      i \in Ids, a \in AddrInputs, c \in {1, 8453},
                      t1 \in CodecInstants, t2 \in CodecInstants}
    IN  plain \cup {[f \in DOMAIN session \cup {"metadata"} |->
                            IF f = "metadata" THEN m ELSE session[f]] :
                        session \in plain, m \in Metadatas}

CodecInit ==
    /\ now = 0
    /\ primary = <<>>
    /\ index = <<>>
    /\ nextId = 1
    /\ failures = 0
    /\ pc = [p \in Procs |-> "idle"]
    /\ loc = [p \in Procs |-> IdleLoc]
    /\ calls = 0
    /\ hist = [createdAddr |-> [i \in Ids |-> ""],
               createOk |-> {},
               lastWrite |-> [i \in Ids |-> -1],
               fresh |-> <<>>,
               patched |-> <<>>,
               quiet |-> FALSE]
    /\ dateNow = 0
    /\ issued = <<>>
    /\ store = <<>>
    /\ res \in {[session |-> session, text |-> <<>>, decoded |-> <<>>] :
                    session \in CodecSessions}
    /\ windows = [hits |-> 0, win |-> <<>>]

Encode ==
    /\ res.text = <<>>
    /\ res' = [res EXCEPT !.text = <<JSONStringify(res.session)>>]
    /\ UNCHANGED <<now, primary, index, nextId, failures, pc, loc, calls, hist,
                   dateNow, issued, store, windows>>

Decode ==
    /\ res.text # <<>>
    /\ res.decoded = <<>>
    /\ JSONParses(res.text[1])
    /\ res' = [res EXCEPT !.decoded = <<ParseSession(res.text[1])>>]
    /\ UNCHANGED <<now, primary, index, nextId, failures, pc, loc, calls, hist,
                   dateNow, issued, store, windows>>

CodecNext == Encode \/ Decode

CodecSpec == CodecInit /\ [][CodecNext]_vars

----------------------------------------------------------------------------
(* The store with the backend unavailable: the client (ioredis, configured *)
(* with maxRetriesPerRequest) retries the command in flight and rejects it *)
(* when the retries are used up; the method then takes its catch.          *)

maxRetriesPerRequest == 3

RetryOps ==
    {"createSession", "getSession", "updateSession", "deleteSession",
     "getSessionsByAddress", "getAllSessions", "cleanupExpiredSessions",
     "extendSession"}

\* the first backend command of each method
FirstCall(op) ==
    CASE op \in {"createSession", "updateSession"} -> "r_setex"
      [] op \in {"getSession", "deleteSession", "extendSession"} -> "r_get"
      [] op = "getSessionsByAddress" -> "r_smembers"
      [] op \in {"getAllSessions", "cleanupExpiredSessions"} -> "r_keys"

RetryLabels == {"r_setex", "r_get", "r_smembers", "r_keys"}

\* what the method does with the rejected command: createSession and
\* updateSession log and rethrow; getSession returns null, which
\* deleteSession takes for a missing session (it returns) and extendSession
\* answers with false; the listings return [], the sweep returns 0
OnReject(op) ==
    CASE op \in {"createSession", "updateSession"} -> [threw |-> TRUE, ret |-> "error"]
      [] op = "getSession" -> [threw |-> FALSE, ret |-> "null"]
      [] op = "deleteSession" -> [threw |-> FALSE, ret |-> "void"]
      [] op = "extendSession" -> [threw |-> FALSE, ret |-> "false"]
      [] op \in {"getSessionsByAddress", "getAllSessions"} ->
            [threw |-> FALSE, ret |-> "list"]
      [] op = "cleanupExpiredSessions" -> [threw |-> FALSE, ret |-> "count"]

\* a client that retries without limit (maxRetriesPerRequest: null)
RetriesNeverExhausted(retries) == FALSE

RetriesExhausted(retries) == retries >= maxRetriesPerRequest

RetryCall(p, op, sessionId) ==
    /\ Call(p, op)
    /\ Goto(p, FirstCall(op), [Started(p, op) EXCEPT !.id = sessionId])
    /\ UNCHANGED <<now, primary, index, nextId, failures, hist>>

\* one more attempt of the command in flight
Retry(p) ==
    /\ pc[p] \in RetryLabels
    /\ ~RetriesExhausted(loc[p].retries)
    /\ loc' = [loc EXCEPT ![p].retries =
                    IF @ < maxRetriesPerRequest THEN @ + 1 ELSE @]
    /\ UNCHANGED <<now, primary, index, nextId, failures, pc, calls, hist>>
    /\ StoreStep

\* the command is rejected and the method ends through its catch
Reject(p) ==
    /\ At(p, pc[p])
    /\ pc[p] \in RetryLabels
    /\ RetriesExhausted(loc[p].retries)
    /\ Goto(p, "done", [loc[p] EXCEPT !.failed = TRUE,
                                      !.threw = OnReject(loc[p].op).threw,
                                      !.ret = OnReject(loc[p].op).ret])
    /\ UNCHANGED <<now, primary, index, nextId, failures, hist>>

RetryNext ==
    \/ \E p \in Procs, op \in RetryOps, sessionId \in Ids : RetryCall(p, op, sessionId)
    \/ \E p \in Procs : Retry(p)
    \/ \E p \in Procs : Reject(p)
    \/ \E p \in Procs : Return(p)

RetrySpec == Init /\ [][RetryNext]_vars

\* the event loop runs every pending callback: a retry that is due and a
\* rejection that is due both happen
RetryLive == RetrySpec /\ \A p \in Procs : WF_vars(Retry(p) \/ Reject(p))

----------------------------------------------------------------------------
(* POST /api/wallet/disconnect/:address: getSessionsByAddress, then        *)
(* disconnectSession for every session returned, counting the successes.   *)
(* loc.key is the position in the list of the session being disconnected,  *)
(* loc.value the count.                                                    *)

\* for (const session of sessions): the next session, or the response
WalletNext(p, l) ==
    IF l.key = Len(l.sessions)
    THEN Goto(p, "done", [l EXCEPT !.ret = "count"])
    ELSE Goto(p, "w_dget", [l EXCEPT !.key = @ + 1])

\* the loop of getSessionsByAddress; after it, the loop of the handler
WalletLoop(p, l) ==
    IF l.keys = {} THEN WalletNext(p, l) ELSE Goto(p, "w_get", l)

WalletSmembers(p, address) ==
    /\ Call(p, "disconnectAll")
    /\ LET addressKey == getAddressKey(ToLowerCase(address))
           l == [Started(p, "disconnectAll") EXCEPT !.addressKey = addressKey]
       IN  \/ /\ WalletLoop(p, [l EXCEPT !.keys = Smembers(index, addressKey)])
              /\ UNCHANGED failures
           \* getSessionsByAddress catches the failure and returns []
           \/ /\ BackendFails
              /\ WalletNext(p, [l EXCEPT !.failed = TRUE])
    /\ hist' = CalledHist(hist)
    /\ UNCHANGED <<now, primary, index, nextId>>

WalletGet(p) ==
    /\ At(p, "w_get")
    /\ \E sessionId \in loc[p].keys :
        LET rest == [loc[p] EXCEPT !.keys = @ \ {sessionId}]
            session == StoreGet(primary, sessionId)
        IN  \/ /\ WalletLoop(p, [rest EXCEPT !.sessions = PushIfFound(@, session)])
               /\ UNCHANGED failures
            \/ /\ BackendFails
               /\ WalletLoop(p, [rest EXCEPT !.failed = TRUE])
    /\ UNCHANGED <<now, primary, index, nextId, hist>>

\* disconnectSession(session.id): deleteSession starts with getSession
WalletDelGet(p) ==
    /\ At(p, "w_dget")
    /\ LET sessionId == loc[p].sessions[loc[p].key].id
           Continue(session, failed) ==
               LET l == [loc[p] EXCEPT !.session = session,
                                       !.failed = @ \/ failed]
               IN  IF DeleteOnRead(session) = "return"
                   THEN WalletNext(p, [l EXCEPT !.value = @ + 1])
                   ELSE Goto(p, "w_del", l)
       IN  \/ /\ Continue(StoreGet(primary, sessionId), FALSE)
              /\ UNCHANGED failures
           \/ /\ BackendFails
              /\ Continue(<<>>, TRUE)
    /\ UNCHANGED <<now, primary, index, nextId, hist>>

WalletDel(p) ==
    /\ At(p, "w_del")
    /\ LET sessionId == loc[p].sessions[loc[p].key].id
       IN  \/ /\ primary' = Del(primary, getSessionKey(sessionId))
              /\ hist' = DeletedHist(hist, sessionId)
              /\ Goto(p, "w_srem", loc[p])
              /\ UNCHANGED failures
           \* deleteSession rethrows, disconnectSession answers false
           \/ /\ BackendFails
              /\ WalletNext(p, [loc[p] EXCEPT !.failed = TRUE])
              /\ UNCHANGED <<primary, hist>>
    /\ UNCHANGED <<now, index, nextId>>

WalletSrem(p) ==
    /\ At(p, "w_srem")
    /\ LET sessionId == loc[p].sessions[loc[p].key].id
           addressKey == getAddressKey(loc[p].session[1].address)
       IN  \/ /\ index' = Srem(index, addressKey, sessionId)
              /\ hist' = Mutated(hist)
              /\ WalletNext(p, [loc[p] EXCEPT !.value = @ + 1])
              /\ UNCHANGED failures
           \/ /\ BackendFails
              /\ WalletNext(p, [loc[p] EXCEPT !.failed = TRUE])
              /\ UNCHANGED <<index, hist>>
    /\ UNCHANGED <<now, primary, nextId>>

WalletRouteNext ==
    \/ \E p \in Procs, address \in AddrInputs, chainId \in ChainIds :
            CreateSetex(p, address, chainId)
    \/ \E p \in Procs : CreateSadd(p)
    \/ \E p \in Procs : CreateExpire(p)
    \/ \E p \in Procs, sessionId \in Ids : GetGet(p, sessionId)
    \/ \E p \in Procs : GetSetex(p)
    \/ \E p \in Procs, address \in AddrInputs : WalletSmembers(p, address)
    \/ \E p \in Procs : WalletGet(p)
    \/ \E p \in Procs : WalletDelGet(p)
    \/ \E p \in Procs : WalletDel(p)
    \/ \E p \in Procs : WalletSrem(p)
    \/ \E p \in Procs : Return(p)
    \/ Tick

WalletSpec == Init /\ [][WalletRouteNext]_vars

----------------------------------------------------------------------------
(* POST /api/session/create: ValidationMiddleware(schemas.createSession),   *)
(* then the handler's own checks, then createSession.  An address is seen   *)
(* by the checks through its first two characters, the number of characters *)
(* that follow and whether all of these are hex digits; text is the string. *)

AddressDigits == 40

RouteAddresses ==
    {[text |-> a, prefix |-> "0x", digits |-> AddressDigits, hex |-> TRUE] :
        a \in AddrInputs}
    \cup {[text |-> "invalid", prefix |-> "in", digits |-> 5, hex |-> FALSE],
          [text |-> "0xa", prefix |-> "0x", digits |-> AddressDigits - 1,
           hex |-> TRUE],
          [text |-> "0xzz", prefix |-> "0x", digits |-> AddressDigits,
           hex |-> FALSE]}

RouteChainIds == ChainIds \cup {1, 999}

CreateBodies ==
    {[address |-> a, chainId |-> c] : a \in RouteAddresses, c \in RouteChainIds}

\* /^0x[a-fA-F0-9]{40}$/.test(address)
isValidAddress(address) ==
    address.prefix = "0x" /\ address.digits = AddressDigits /\ address.hex

\* chainId === base.id || chainId === mainnet.id
isValidChainId(chainId) == chainId = 8453 \/ chainId = 1

\* schemas.createSession: address pattern, chainId valid(1, 8453)
SchemaCreateSession(body) ==
    /\ body.address.prefix = "0x"
    /\ body.address.digits = AddressDigits
    /\ body.address.hex
    /\ body.chainId \in {1, 8453}

\* a route that checks the address only
RejectsCreateAddressOnly(body) == ~isValidAddress(body.address)

\* the request is answered 400 before createSession is called
RejectsCreate(body) ==
    \/ ~SchemaCreateSession(body)
    \/ ~isValidAddress(body.address)
    \/ ~isValidChainId(body.chainId)

PostCreate(p, body) ==
    IF RejectsCreate(body)
    THEN /\ Call(p, "create")
         /\ Goto(p, "done", [Started(p, "create") EXCEPT !.body = <<body>>,
                                                         !.ret = "400"])
         /\ hist' = CalledHist(hist)
         /\ UNCHANGED <<now, primary, index, nextId, failures>>
    ELSE CreateSetex(p, body.address.text, body.chainId)

RouteNext ==
    \/ \E p \in Procs, body \in CreateBodies : PostCreate(p, body)
    \/ \E p \in Procs : CreateSadd(p)
    \/ \E p \in Procs : CreateExpire(p)
    \/ \E p \in Procs, sessionId \in Ids : GetGet(p, sessionId)
    \/ \E p \in Procs : GetSetex(p)
    \/ \E p \in Procs : Return(p)
    \/ Tick

RouteSpec == Init /\ [][RouteNext]_vars

----------------------------------------------------------------------------
(* Session ids.  Spec follows the runs in which generateSessionId hands out *)
(* fresh ids (nextId); IdSpec looks at the generator itself: the id is made *)
(* of the millisecond clock and of a draw of Math.random, by any of the     *)
(* service processes.                                                      *)

ServiceProcs == {1, 2}
Randoms == 1 .. MaxRandom

\* `session_${Date.now()}_${Math.random().toString(36).substr(2, 9)}`
generateSessionId(ms, random) == <<"session", ms, random>>

\* createSession of process proc, all its awaits succeeding
IdCreate(proc, address, chainId, random) ==
    /\ Len(issued) < MaxIssued
    /\ LET id == generateSessionId(dateNow, random)
           session == [NewSession(id, address, chainId, now)
                          EXCEPT !.connectedAt = dateNow,
                                 !.lastActivity = dateNow]
           key == getSessionKey(session.id)
           addressKey == getAddressKey(session.address)
       IN  /\ issued' = Append(issued, [proc |-> proc, id |-> session.id,
                                        overwrote |-> key \in DOMAIN primary])
           /\ primary' = Setex(primary, key, ExpirySeconds,
                               JSONStringify(session), now)
           /\ index' = ExpireKey(Sadd(index, addressKey, session.id),
                                 addressKey, ExpirySeconds, now)
    /\ UNCHANGED <<now, nextId, failures, pc, loc, calls, hist,
                   dateNow, store, res, windows>>

\* a millisecond passes
DateTick ==
    /\ dateNow < MaxMs
    /\ dateNow' = dateNow + 1
    /\ UNCHANGED <<now, primary, index, nextId, failures, pc, loc, calls, hist,
                   issued, store, res, windows>>

IdNext ==
    \/ \E proc \in ServiceProcs, address \in AddrInputs, chainId \in ChainIds,
          random \in Randoms : IdCreate(proc, address, chainId, random)
    \/ DateTick

IdSpec == Init /\ [][IdNext]_vars

----------------------------------------------------------------------------
(* RateLimitMiddleware: a fixed window per client identifier                *)

\* req.ip || 'unknown'
Identifiers == {"10.0.0.1", "unknown"}

HeaderNames == {"X-RateLimit-Limit", "X-RateLimit-Remaining", "X-RateLimit-Reset"}

Max(a, b) == IF a >= b THEN a ELSE b

\* Math.ceil(a / b) for a >= 0
CeilDiv(a, b) == (a + b - 1) \div b

\* a limit that lets one request too many through
ExceededLate(count) == count > maxRequests + 1

\* store[identifier].count > maxRequests
Exceeded(count) == count > maxRequests

\* !store[identifier] || store[identifier].resetTime < now
OpensWindow(st, identifier, t) ==
    identifier \notin DOMAIN st \/ st[identifier].resetTime < t

\* history: the window of the identifier, as the request at time t finds it
WindowAt(w, identifier, t) ==
    IF identifier \in DOMAIN w.win /\ t <= w.win[identifier].resetTime
    THEN w.win[identifier]
    ELSE [resetTime |-> t + windowMs, passed |-> 0]

\* history: a request of the identifier at time t was passed on, or not
HitHist(w, identifier, t, passed) ==
    LET cur == WindowAt(w, identifier, t)
    IN  [hits |-> w.hits + 1,
         win |-> [i \in DOMAIN w.win \cup {identifier} |->
                    IF i = identifier
                    THEN [cur EXCEPT !.passed = @ + (IF passed THEN 1 ELSE 0)]
                    ELSE w.win[i]]]

RateLimit(identifier) ==
    /\ windows.hits < MaxHits
    /\ IF OpensWindow(store, identifier, dateNow)
       THEN /\ store' = [i \in DOMAIN store \cup {identifier} |->
                            IF i = identifier
                            THEN [count |-> 1, resetTime |-> dateNow + windowMs]
                            ELSE store[i]]
            /\ res' = [identifier |-> identifier, passed |-> TRUE, status |-> 0,
                       headers |-> <<>>, at |-> dateNow,
                       count |-> store'[identifier].count,
                       resetTime |-> store'[identifier].resetTime,
                       opened |-> WindowAt(windows, identifier, dateNow).passed = 0]
            /\ windows' = HitHist(windows, identifier, dateNow, TRUE)
       ELSE LET count == store[identifier].count + 1
                remaining == maxRequests - count
                resetTime == CeilDiv(store[identifier].resetTime - dateNow, 1000)
                headers == [h \in HeaderNames |->
                              IF h = "X-RateLimit-Limit" THEN maxRequests
                              ELSE IF h = "X-RateLimit-Remaining"
                              THEN Max(0, remaining)
                              ELSE resetTime]
            IN  /\ store' = [store EXCEPT ![identifier].count = count]
                /\ res' = [identifier |-> identifier,
                           passed |-> ~Exceeded(count),
                           status |-> IF Exceeded(count) THEN 429 ELSE 0,
                           headers |-> headers, at |-> dateNow,
                           count |-> store'[identifier].count,
                           resetTime |-> store'[identifier].resetTime,
                           opened |-> WindowAt(windows, identifier, dateNow).passed = 0]
                /\ windows' = HitHist(windows, identifier, dateNow,
                                      ~Exceeded(count))
    /\ UNCHANGED <<now, primary, index, nextId, failures, pc, loc, calls, hist,
                   dateNow, issued>>

\* setInterval, every 5 minutes: drop the entries whose window is over
RateCleanup ==
    /\ \E key \in DOMAIN store : store[key].resetTime < dateNow
    /\ store' = [key \in {k \in DOMAIN store : ~(store[k].resetTime < dateNow)}
                    |-> store[key]]
    /\ UNCHANGED <<now, primary, index, nextId, failures, pc, loc, calls, hist,
                   dateNow, issued, res, windows>>

RateTick ==
    /\ dateNow < MaxClock
    /\ dateNow' = dateNow + 1
    /\ UNCHANGED <<now, primary, index, nextId, failures, pc, loc, calls, hist,
                   issued, store, res, windows>>

RateNext ==
    \/ \E identifier \in Identifiers : RateLimit(identifier)
    \/ RateCleanup
    \/ RateTick

RateSpec == Init /\ [][RateNext]_vars

----------------------------------------------------------------------------
(* Properties                                                              *)

Returned(p, op) == pc[p] = "done" /\ loc[p].op = op

\* a property of an object, undefined is <<>>
Field(object, f) == IF f \in DOMAIN object THEN <<object[f]>> ELSE <<>>

Indexed(idx, sessionId) ==
    \E a \in DOMAIN idx : sessionId \in idx[a].members

\* C1: when deleteSession(id) returns without error, getSession(id) is
\* null and id is not in the index set of the address it was created under
C1_DeleteRemovesBothViews ==
    \A p \in Procs :
        (Returned(p, "disconnect") /\ ~loc[p].threw) =>
            /\ StoreGet(primary, loc[p].id) = <<>>
            /\ hist.createdAddr[loc[p].id] # "" =>
                 loc[p].id \notin
                    Smembers(index, getAddressKey(hist.createdAddr[loc[p].id]))

\* C2: a complete sweep without backend failure removes from every index
\* set the ids that had no primary record when the sweep started
C2_SweepRepairsDangling ==
    \A p \in Procs :
        (Returned(p, "cleanup") /\ ~loc[p].failed) =>
            \A a \in DOMAIN loc[p].snap.index :
                \A sessionId \in loc[p].snap.index[a].members :
                    sessionId \notin DOMAIN loc[p].snap.primary =>
                        sessionId \notin Smembers(index, a)

\* C3: an id whose primary record was gone before a sweep started and is
\* still gone is in no index set when that sweep has completed
C3_BoundedIndexStaleness ==
    \A p \in Procs :
        (Returned(p, "cleanup") /\ ~loc[p].failed) =>
            \A sessionId \in Ids :
                ( /\ hist.createdAddr[sessionId] # ""
                  /\ sessionId \notin DOMAIN loc[p].snap.primary
                  /\ sessionId \notin DOMAIN primary ) =>
                        ~Indexed(index, sessionId)

\* C4: without backend failures, every created session whose primary record
\* exists is a member of the (unexpired) index set of its address
C4_SharedExpiryHorizon ==
    failures = 0 =>
        \A sessionId \in hist.createOk :
            sessionId \in DOMAIN primary =>
                sessionId \in
                    Smembers(index, getAddressKey(hist.createdAddr[sessionId]))

\* C5: getSessionsByAddress of a created session's address returns that
\* session as long as it has neither been deleted nor expired
C5_ListedAfterCreate ==
    \A p \in Procs :
        (Returned(p, "list") /\ ~loc[p].failed) =>
            \A sessionId \in hist.createOk :
                ( /\ loc[p].addressKey = getAddressKey(hist.createdAddr[sessionId])
                  /\ sessionId \in DOMAIN loc[p].snap.primary
                  /\ sessionId \in DOMAIN primary ) =>
                        \E k \in 1 .. Len(loc[p].sessions) :
                            loc[p].sessions[k].id = sessionId

\* C6: getSession of the session that createSession has just returned
\* gives a session with the same id, address, chainId, connectedAt and
\* metadata, and gives one whenever the record is there and the read works
C6_CreateThenGet ==
    \A p \in Procs :
        ( /\ Returned(p, "get")
          /\ loc[p].snap.fresh # <<>>
          /\ loc[p].id = loc[p].snap.fresh[1].id ) =>
            /\ loc[p].ret = "session" =>
                 \A f \in {"id", "address", "chainId", "connectedAt", "metadata"} :
                    Field(loc[p].session[1], f) = Field(loc[p].snap.fresh[1], f)
            /\ ( /\ ~loc[p].failed
                 /\ loc[p].id \in DOMAIN loc[p].snap.primary ) =>
                    loc[p].ret = "session"

C6_Witness ==
    \E p \in Procs :
        /\ Returned(p, "get")
        /\ loc[p].snap.fresh # <<>>
        /\ loc[p].id = loc[p].snap.fresh[1].id
        /\ loc[p].ret = "session"
        /\ loc[p].session[1].lastActivity # loc[p].snap.fresh[1].lastActivity

\* C7: deleteSession of an id without primary record returns without
\* error and changes no key, and disconnectSession answers true
C7_IdempotentDelete ==
    \A p \in Procs :
        ( /\ Returned(p, "disconnect")
          /\ loc[p].id \notin DOMAIN loc[p].snap.primary ) =>
            /\ ~loc[p].threw
            /\ loc[p].ret = "true"
            /\ primary = loc[p].snap.primary
            /\ index = loc[p].snap.index

C7_Witness ==
    \E p \in Procs :
        /\ Returned(p, "disconnect")
        /\ loc[p].id \notin DOMAIN loc[p].snap.primary
        /\ hist.createdAddr[loc[p].id] # ""
        /\ Indexed(index, loc[p].id)

\* C8: when updateSession(S) returns without error the remaining
\* time-to-live of session:<S.id> is the full 24 hours
C8_TtlRestartOnUpdate ==
    \A p \in Procs :
        ( /\ pc[p] = "done"
          /\ loc[p].op \in {"update", "get"}
          /\ loc[p].session # <<>>
          /\ ~loc[p].threw ) =>
            Ttl(primary, getSessionKey(loc[p].session[1].id), now) = SessionTTL

C8_Witness ==
    \E p \in Procs :
        /\ Returned(p, "update")
        /\ loc[p].ret = "true"
        /\ Ttl(loc[p].snap.primary, getSessionKey(loc[p].id), loc[p].snap.now)
                \in 1 .. SessionTTL - 1

\* C9: a primary record last written at time t and not deleted since is
\* found at every time before t + TTL and at no time from t + TTL on
C9_PassiveExpiry ==
    \A sessionId \in Ids :
        hist.lastWrite[sessionId] >= 0 =>
            ( StoreGet(primary, sessionId) # <<>>
                <=> now < hist.lastWrite[sessionId] + SessionTTL )

C9_Witness ==
    \E sessionId \in Ids :
        /\ hist.lastWrite[sessionId] >= 0
        /\ now >= hist.lastWrite[sessionId] + SessionTTL
        /\ StoreGet(primary, sessionId) = <<>>

\* C10: a sweep run right after a sweep, with nothing changed or expired
\* since, returns 0 and leaves every record, expiry and index set as it was
C10_SweepIdempotent ==
    \A p \in Procs :
        (Returned(p, "cleanup") /\ loc[p].inRow) =>
            /\ loc[p].value = 0
            /\ primary = loc[p].snap.primary
            /\ index = loc[p].snap.index

C10_Witness ==
    \E p \in Procs :
        /\ Returned(p, "cleanup")
        /\ loc[p].inRow
        /\ ~loc[p].failed
        /\ DOMAIN loc[p].snap.primary # {}

\* the ids of the sessions a list call has returned
ListedIds(l) == {l.sessions[k].id : k \in 1 .. Len(l.sessions)}

\* the sessions created under an address key and not deleted since
LiveOf(addressKey) ==
    {sessionId \in hist.createOk :
        /\ getAddressKey(hist.createdAddr[sessionId]) = addressKey
        /\ hist.lastWrite[sessionId] >= 0}

C12_UpdateThenGet ==
    \A p \in Procs :
        ( /\ Returned(p, "get")
          /\ loc[p].snap.patched # <<>>
          /\ loc[p].id = loc[p].snap.patched[1].before.id
          /\ loc[p].ret = "session" ) =>
            LET before == loc[p].snap.patched[1].before
                updates == loc[p].snap.patched[1].updates
                session == loc[p].session[1]
            IN  /\ \A f \in DOMAIN updates : Field(session, f) = <<updates[f]>>
                /\ \A f \in {"id", "address", "chainId", "connectedAt", "metadata"}
                            \ DOMAIN updates :
                        Field(session, f) = Field(before, f)

C12_Witness ==
    \E p \in Procs :
        /\ Returned(p, "get")
        /\ loc[p].snap.patched # <<>>
        /\ loc[p].id = loc[p].snap.patched[1].before.id
        /\ loc[p].ret = "session"
        /\ \E f \in DOMAIN loc[p].snap.patched[1].updates :
                Field(loc[p].snap.patched[1].before, f)
                    # <<loc[p].snap.patched[1].updates[f]>>

\* the other keys of the primary family
OtherRecords(prim, sessionId) ==
    [k \in DOMAIN prim \ {getSessionKey(sessionId)} |-> prim[k]]

\* C13: a getSession(id) that finds the session leaves the record stored
\* with lastActivity at the current time and the full TTL; every other
\* field of the record, every other record and every index set are as
\* they were when the read was called
C13_ReadIsTouch ==
    \A p \in Procs :
        (Returned(p, "get") /\ loc[p].ret = "session") =>
            LET before == StoreGet(loc[p].snap.primary, loc[p].id)
                after == StoreGet(primary, loc[p].id)
            IN  /\ before # <<>> /\ after # <<>>
                /\ after[1].lastActivity = DateOf(now)
                /\ Ttl(primary, getSessionKey(loc[p].id), now) = SessionTTL
                /\ DOMAIN after[1] = DOMAIN before[1]
                /\ \A f \in DOMAIN before[1] \ {"lastActivity"} :
                        after[1][f] = before[1][f]
                /\ OtherRecords(primary, loc[p].id)
                        = OtherRecords(loc[p].snap.primary, loc[p].id)
                /\ index = loc[p].snap.index

C13_Witness ==
    \E p \in Procs :
        /\ Returned(p, "get")
        /\ loc[p].ret = "session"
        /\ StoreGet(loc[p].snap.primary, loc[p].id)[1].lastActivity # DateOf(now)
        /\ Ttl(loc[p].snap.primary, getSessionKey(loc[p].id), loc[p].snap.now)
                < SessionTTL

\* C14: updateSession(id, fields) on an id without primary record returns
\* false, raises nothing, and leaves every primary record and every index
\* set as it was
C14_UpdateMissing ==
    \A p \in Procs :
        ( /\ Returned(p, "update")
          /\ loc[p].id \notin DOMAIN loc[p].snap.primary ) =>
            /\ loc[p].ret = "false"
            /\ ~loc[p].threw
            /\ primary = loc[p].snap.primary
            /\ index = loc[p].snap.index

C14_Witness ==
    \E p \in Procs :
        /\ Returned(p, "update")
        /\ loc[p].id \notin DOMAIN loc[p].snap.primary
        /\ ~loc[p].failed
        /\ hist.createdAddr[loc[p].id] # ""
        /\ DOMAIN primary # {}

\* C15: whatever fields updateSession is given, the record under
\* session:<id> has id field id and the address it was created with, and
\* updateSession(id, ..) writes under no other primary key
C15_IdAndAddressImmutable ==
    /\ \A sessionId \in DOMAIN primary :
            LET session == StoreGet(primary, sessionId)[1]
            IN  /\ getSessionKey(session.id) = sessionId
                /\ hist.createdAddr[sessionId] # "" =>
                        session.address = hist.createdAddr[sessionId]
    /\ \A p \in Procs :
            Returned(p, "update") =>
                OtherRecords(primary, loc[p].id)
                    = OtherRecords(loc[p].snap.primary, loc[p].id)

\* C16: any two calls of createSession, by the same or by different
\* processes, at the same or at different clock instants, return different
\* ids, and no create writes over the primary record of an existing session
C16_IdsNeverReused ==
    /\ \A i, j \in 1 .. Len(issued) : i # j => issued[i].id # issued[j].id
    /\ \A i \in 1 .. Len(issued) : ~issued[i].overwrote

\* what getSessionsByAddress(address) returns when run on the present state
ListNow(address) ==
    {StoreGet(primary, sessionId)[1] :
        sessionId \in {i \in Smembers(index, getAddressKey(address)) :
                          StoreGet(primary, i) # <<>>}}

\* C17: every stored record has a lowercase address, every index key is a
\* lowercase address, and two spellings of one address list the same sessions
C17_AddressesNormalized ==
    /\ \A sessionId \in DOMAIN primary :
            LET session == StoreGet(primary, sessionId)[1]
            IN  session.address = ToLowerCase(session.address)
    /\ \A addressKey \in DOMAIN index : addressKey = ToLowerCase(addressKey)
    /\ \A a1, a2 \in AddrInputs :
            ToLowerCase(a1) = ToLowerCase(a2) => ListNow(a1) = ListNow(a2)

\* C18: a backend failure inside SessionManager.createSession,
\* updateSession or deleteSession, the first read of deleteSession
\* included, makes the operation raise; a deleteSession that returns
\* normally has removed the record it was asked to remove
C18_WriteFailuresRaise ==
    \A p \in Procs :
        /\ (Returned(p, "create") /\ loc[p].failed) => loc[p].threw
        /\ ( /\ pc[p] = "done"
             /\ loc[p].op \in {"update", "get"}
             /\ loc[p].session # <<>>
             /\ loc[p].failed ) => loc[p].threw
        /\ (Returned(p, "disconnect") /\ loc[p].failed) => loc[p].threw
        /\ (Returned(p, "disconnect") /\ ~loc[p].threw) =>
                getSessionKey(loc[p].id) \notin DOMAIN primary

\* C19: in every window of every identifier at most maxRequests requests
\* are passed on, a request is answered 429 exactly when it is not passed
\* on, and the request that opens a window leaves the count at 1
C19_RateLimit ==
    /\ \A identifier \in DOMAIN windows.win :
            windows.win[identifier].passed <= maxRequests
    /\ res # <<>> =>
            /\ res.status = 429 <=> ~res.passed
            /\ ~res.passed =>
                    windows.win[res.identifier].passed = maxRequests
            /\ res.opened =>
                    /\ res.passed
                    /\ res.count = 1
                    /\ res.resetTime = res.at + windowMs

C19_Witness ==
    /\ res # <<>>
    /\ res.status = 429
    /\ \E identifier \in DOMAIN windows.win \ {res.identifier} :
            windows.win[identifier].passed > 0

\* C20: every request passed on carries the three rate-limit headers, with
\* X-RateLimit-Remaining = max(0, maxRequests - count)
C20_RateLimitHeaders ==
    (res # <<>> /\ res.passed) =>
        /\ DOMAIN res.headers = HeaderNames
        /\ res.headers["X-RateLimit-Remaining"]
                = Max(0, maxRequests - res.count)

\* C21: a POST /api/session/create answered 400 leaves every primary record
\* and index set as it was, and no stored session has an address that is
\* not 0x + 40 hex digits or a chainId outside {1, 8453}
C21_RejectedCreateLeavesNoTrace ==
    /\ \A p \in Procs :
            (Returned(p, "create") /\ loc[p].body # <<>>) =>
                /\ loc[p].ret = "400"
                /\ primary = loc[p].snap.primary
                /\ index = loc[p].snap.index
    /\ \A sessionId \in DOMAIN primary :
            LET session == StoreGet(primary, sessionId)[1]
            IN  /\ session.chainId \in {1, 8453}
                /\ session.address \in {ToLowerCase(a) : a \in AddrInputs}
    /\ \A addressKey \in DOMAIN index :
            addressKey \in {ToLowerCase(a) : a \in AddrInputs}

C21_Witness ==
    \E p \in Procs :
        /\ Returned(p, "create")
        /\ loc[p].ret = "400"
        /\ isValidAddress(loc[p].body[1].address)
        /\ loc[p].body[1].chainId = 999
        /\ DOMAIN primary # {}

\* the sessions whose createSession wrote the primary record and then failed
PartlyCreated ==
    {sessionId \in Ids :
        hist.createdAddr[sessionId] # "" /\ sessionId \notin hist.createOk}

\* C22: a session whose create failed after the primary write is readable
\* by id when the create returns, and after the next complete sweep it is a
\* member of the index set of its address as long as its record exists
C22_PartialCreateSelfHeals ==
    \A p \in Procs :
        /\ ( /\ Returned(p, "create")
             /\ loc[p].threw
             /\ loc[p].id \in PartlyCreated ) =>
                StoreGet(primary, loc[p].id) # <<>>
        /\ (Returned(p, "cleanup") /\ ~loc[p].failed) =>
                \A sessionId \in PartlyCreated :
                    ( /\ sessionId \in DOMAIN loc[p].snap.primary
                      /\ sessionId \in DOMAIN primary ) =>
                        sessionId \in Smembers(index,
                            getAddressKey(hist.createdAddr[sessionId]))

\* C23: beside concurrent traffic, a step of the sweep that removes a session
\* id from an address set does so only when the record of that id does not
\* exist at that moment.
C23_SweepSafeBesideTraffic ==
    [][\A p \in DOMAIN pc :
          (pc[p] = "s_srem" /\ loc'[p] # loc[p] /\ index' # index) =>
              loc[p].key \notin DOMAIN primary]_vars

\* C24: a failed backend lookup inside cleanupExpiredSessions is skipped: at
\* the return of the sweep every enumerated key has been taken from the loop,
\* and the value returned is the count of the repairs made in the run.
C24_FailedLookupSkipped ==
    \A p \in Procs :
        Returned(p, "cleanup") =>
            /\ loc[p].keys = {}
            /\ loc[p].value = loc[p].cleanedCount

\* C25: after a complete failure-free sweep every record that had no TTL when
\* the sweep examined it has the value it had and an expiry one session TTL
\* after an instant of the sweep (or has run out that TTL since).
C25_NoImmortalRecord ==
    \A p \in Procs :
        (Returned(p, "cleanup") /\ ~loc[p].failed) =>
            \A key \in Immortal(loc[p].snap.primary) :
                \/ /\ key \in DOMAIN primary
                   /\ primary[key].data = loc[p].snap.primary[key].data
                   /\ primary[key].exp >= loc[p].snap.now + SessionTTL
                   /\ primary[key].exp <= now + SessionTTL
                \/ /\ key \notin DOMAIN primary
                   /\ now >= loc[p].snap.now + SessionTTL

C25_Witness ==
    \E p \in Procs :
        /\ Returned(p, "cleanup")
        /\ ~loc[p].failed
        /\ Immortal(loc[p].snap.primary) # {}
        /\ Immortal(loc[p].snap.primary) # DOMAIN loc[p].snap.primary
        /\ Immortal(loc[p].snap.primary) \subseteq DOMAIN primary

\* a step taken by the sweep of process p
SweepStep(p) == loc'[p] # loc[p] /\ loc'[p].op = "cleanup"

\* C26: every step of cleanupExpiredSessions, of a run that completes or of
\* one that fails or stops after the step, leaves the set of primary records
\* and the value of each as they are; it changes an expiry only from none to
\* one session TTL from now, and an index set only by removing the id of the
\* key at hand.
C26_SweepKeepsLiveSessions ==
    [][\A p \in Procs :
          SweepStep(p) =>
              /\ DOMAIN primary' = DOMAIN primary
              /\ \A key \in DOMAIN primary :
                      /\ primary'[key].data = primary[key].data
                      /\ \/ primary'[key].exp = primary[key].exp
                         \/ /\ primary[key].exp = NoExpiry
                            /\ primary'[key].exp = now + SessionTTL
              /\ DOMAIN index' \subseteq DOMAIN index
              /\ \A addrKey \in DOMAIN index :
                      /\ Smembers(index', addrKey)
                            \in {index[addrKey].members,
                                 index[addrKey].members \ {loc[p].key}}
                      /\ addrKey \in DOMAIN index' =>
                            index'[addrKey].exp = index[addrKey].exp]_vars

C26_Witness ==
    \E p \in Procs :
        /\ Returned(p, "cleanup")
        /\ index # loc[p].snap.index
        /\ \E key \in Immortal(loc[p].snap.primary) :
                key \in DOMAIN primary /\ primary[key].exp # NoExpiry
        /\ \E key \in DOMAIN primary : primary[key] = loc[p].snap.primary[key]

\* the keys to which the sweep of process p has applied the missing TTL
Repaired(p) ==
    {key \in Immortal(loc[p].snap.primary) :
        key \notin DOMAIN primary \/ primary[key].exp # NoExpiry}

\* C27: the value returned by cleanupExpiredSessions is the number of keys
\* to which the run applied the missing TTL plus the number of keys whose id
\* it removed from the index sets, and is not negative.
C27_SweepCount ==
    \A p \in Procs :
        Returned(p, "cleanup") =>
            /\ loc[p].value = Cardinality(Repaired(p)) + loc[p].cleanedCount
            /\ loc[p].value >= 0

\* C28: the write of SessionManager.updateSession(S) changes nothing but the
\* key session:<S.id>: every address set with its members and its expiry and
\* every other primary record are as before the write.
C28_UpdateLeavesIndexAlone ==
    [][\A p \in DOMAIN pc :
          (pc[p] \in {"u_setex", "g_setex"} /\ loc'[p] # loc[p]) =>
              /\ index' = index
              /\ OtherRecords(primary', loc[p].session[1].id)
                    = OtherRecords(primary, loc[p].session[1].id)]_vars

C28_Witness ==
    \E p \in Procs :
        /\ Returned(p, "update")
        /\ loc[p].ret = "true"
        /\ primary # loc[p].snap.primary
        /\ OtherRecords(primary, loc[p].id) # <<>>
        /\ Cardinality(DOMAIN index) = 2

\* a step of process p inside SessionManager.getSession,
\* getSessionsByAddress or getAllSessions
ReadStep(p) ==
    /\ loc'[p] # loc[p]
    /\ \/ pc[p] = "idle" /\ loc'[p].op \in {"get", "list", "all"}
       \/ pc[p] \in {"l_get", "a_get"}

\* C29: no step of SessionManager.getSession, getSessionsByAddress or
\* getAllSessions changes a primary record, an expiry or an index set; a
\* member of an index set found without record stays in the set.
C29_ReadsAreReadOnly ==
    [][\A p \in Procs : ReadStep(p) => primary' = primary /\ index' = index]_vars

C29_Witness ==
    \E p \in Procs :
        /\ Returned(p, "list")
        /\ ~loc[p].failed
        /\ loc[p].sessions # <<>>
        /\ \E sessionId \in Smembers(index, loc[p].addressKey) :
                /\ sessionId \in Smembers(loc[p].snap.index, loc[p].addressKey)
                /\ sessionId \notin DOMAIN primary

\* the members of the set of an address key that have a primary record
FoundMembers(prim, idx, addressKey) ==
    {sessionId \in Smembers(idx, addressKey) : StoreGet(prim, sessionId) # <<>>}

\* C30: a getSessionsByAddress(a) whose backend calls all succeed returns,
\* for each member of the index set of a whose primary record exists, that
\* record's session once, and nothing else: no entry for a member without
\* record, no null entry.
C30_ListDropsMissing ==
    \A p \in Procs :
        (Returned(p, "list") /\ ~loc[p].failed) =>
            LET found == FoundMembers(loc[p].snap.primary, loc[p].snap.index,
                                      loc[p].addressKey)
            IN  /\ ListedIds(loc[p]) = found
                /\ Len(loc[p].sessions) = Cardinality(found)
                /\ \A k \in 1 .. Len(loc[p].sessions) :
                        <<loc[p].sessions[k]>>
                            = StoreGet(loc[p].snap.primary, loc[p].sessions[k].id)

C30_Witness ==
    \E p \in Procs :
        /\ Returned(p, "list")
        /\ ~loc[p].failed
        /\ loc[p].sessions # <<>>
        /\ FoundMembers(loc[p].snap.primary, loc[p].snap.index, loc[p].addressKey)
                # Smembers(loc[p].snap.index, loc[p].addressKey)

\* the keys whose value decodes
Decodable(prim) == {key \in DOMAIN prim : JSONParses(prim[key].data)}

\* C31: without backend failure, getSession of an id whose stored value does
\* not decode returns null, and getSessionsByAddress and getAllSessions
\* return every session whose record exists and decodes, the members of the
\* address set for the former, all of them for the latter.
C31_CorruptCountsAsAbsent ==
    \A p \in Procs :
        /\ ( /\ Returned(p, "get")
             /\ loc[p].id \in DOMAIN loc[p].snap.primary
             /\ loc[p].id \notin Decodable(loc[p].snap.primary) ) =>
                loc[p].ret = "null"
        /\ (Returned(p, "list") /\ ~loc[p].failed) =>
                ListedIds(loc[p])
                    = FoundMembers(loc[p].snap.primary, loc[p].snap.index,
                                   loc[p].addressKey)
        /\ (Returned(p, "all") /\ ~loc[p].failed) =>
                ListedIds(loc[p]) = Decodable(loc[p].snap.primary)

SessionsOf(prim, addressKey) ==
    {sessionId \in Decodable(prim) :
        getAddressKey(StoreGet(prim, sessionId)[1].address) = addressKey}

\* C34: after a POST /api/wallet/disconnect/:address in a run without any
\* backend failure, no session of the address exists or is listed, the
\* index set of the address holds none of the disconnected ids, and
\* sessionsDisconnected is the number of sessions of the address that
\* existed when the request started.
C34_DisconnectAll ==
    \A p \in Procs :
        (Returned(p, "disconnectAll") /\ failures = 0) =>
            /\ SessionsOf(primary, loc[p].addressKey) = {}
            /\ FoundMembers(primary, index, loc[p].addressKey) = {}
            /\ Smembers(index, loc[p].addressKey) \cap ListedIds(loc[p]) = {}
            /\ loc[p].value
                    = Cardinality(SessionsOf(loc[p].snap.primary, loc[p].addressKey))

\* the ids whose disconnectSession has deleted the record and returned true
\* in a run without backend failure, and that were not written since
Disconnected ==
    {sessionId \in Ids :
        /\ hist.createdAddr[sessionId] # ""
        /\ hist.lastWrite[sessionId] = -1
        /\ failures = 0
        /\ \A q \in DOMAIN pc : ~(pc[q] = "d_srem" /\ loc[q].id = sessionId)}

\* C35: once disconnectSession(id) has returned true, no step of a concurrent
\* getSession(id) or updateSession(id, ..) brings the record session:<id>
\* back into existence.
C35_NoResurrection ==
    [][\A sessionId \in Disconnected :
            getSessionKey(sessionId) \notin DOMAIN primary']_vars

\* C36: the write-back of WalletConnectService.getSession(id) leaves every
\* field of the stored record but lastActivity as it is at the moment of the
\* write: what a concurrent updateSession(id, ..) that returned true has
\* stored is not taken back.
C36_ReadNeverRevertsUpdate ==
    [][\A p \in DOMAIN pc :
          (pc[p] = "g_setex" /\ loc'[p] # loc[p]) =>
              LET before == StoreGet(primary, loc[p].session[1].id)
                  after == StoreGet(primary', loc[p].session[1].id)
              IN  before # <<>> =>
                      /\ after # <<>>
                      /\ \A f \in DOMAIN before[1] \ {"lastActivity"} :
                              Field(after[1], f) = <<before[1][f]>>]_vars

C38_DeleteTouchesOneSession ==
    [][\A p \in DOMAIN pc :
          (loc'[p] # loc[p] /\ loc'[p].op = "disconnect") =>
              /\ OtherRecords(primary', loc'[p].id) = OtherRecords(primary, loc'[p].id)
              /\ \A addressKey \in DOMAIN index \cup DOMAIN index' :
                      Smembers(index', addressKey) \ {loc'[p].id}
                          = Smembers(index, addressKey) \ {loc'[p].id}]_vars

C38_Witness ==
    /\ pc[1] = "done"
    /\ loc[1].op = "disconnect"
    /\ loc[1].ret = "true"
    /\ loc[1].session # <<>>
    /\ pc[2] = "c_expire"
    /\ getAddressKey(loc[2].session[1].address)
            = getAddressKey(loc[1].session[1].address)
    /\ Smembers(index, getAddressKey(loc[1].session[1].address)) = {loc[2].id}

\* C39: every primary key that exists has an expiry, and the time left to
\* it is positive and at most the session TTL.
C39_EveryRecordExpires ==
    \A key \in DOMAIN primary :
        /\ primary[key].exp # NoExpiry
        /\ Ttl(primary, key, now) > 0
        /\ Ttl(primary, key, now) <= SessionTTL

C39_Witness ==
    /\ failures = MaxFailures
    /\ \E p \in DOMAIN pc : pc[p] = "done" /\ loc[p].op = "update" /\ loc[p].ret = "true"
    /\ \E p \in DOMAIN pc : pc[p] \in SweepLabels
    /\ now > 0
    /\ \E key \in DOMAIN primary : Ttl(primary, key, now) = SessionTTL

\* C40: a WalletConnectService.getSession(id) whose read found the session
\* returns it, also when the write-back of lastActivity failed; it returns
\* null only when the read found nothing or failed.
C40_FailedTouchKeepsSession ==
    \A p \in Procs :
        Returned(p, "get") =>
            (loc[p].ret = "session" <=> loc[p].session # <<>>)

============================================================================
